---- MODULE Spec2Model ----
(***************************************************************************)
(* Model of scripts/check-docs-consistency.py: three checkers, each        *)
(* returning an ordered list of error strings, and main, which runs them   *)
(* in turn, prints one line per error and returns the exit code.           *)
(*                                                                         *)
(* Names (crates, protocol methods, bench suites) are natural numbers      *)
(* standing for distinct strings; the order of the numbers is the order    *)
(* Python's sorted() gives the strings.  An error string is a record of    *)
(* the message's fixed text (kind), the document or path it names (doc),   *)
(* the names it lists in listing order (items; ", ".join keeps the order)  *)
(* and the field marker or config path it names (field).                   *)
(*                                                                         *)
(* A markdown document is the sequence of its heading sections in source   *)
(* order; a section's body is the set of markers occurring in the text     *)
(* between its heading and the next heading line.                          *)
(***************************************************************************)
EXTENDS Integers, Sequences, FiniteSets, TLC

VARIABLES
    cargoOk,        \* `cargo metadata` runs and its output parses
    packages,       \* names of metadata["packages"]
    archDoc,        \* docs/architecture-map.md
    protoDoc,       \* docs/protocol-extensions.md
    rustSrc,        \* crates/nova-lsp/src: kind of line -> "nova/..." strings on lines of that kind
    vscodeSrc,      \* editors/vscode/src: file kind -> nova/ string literals in files of that kind
    workflow,       \* .github/workflows/perf.yml
    thresholdFiles, \* the perf config files that exist
    benchFiles,     \* the suites whose crates/<crate>/benches/<bench>.rs exists
    perfDocs,       \* the two testing docs and perf/README.md
    pc,             \* main's position
    archRet,        \* value returned by check_architecture_map
    protoRet,       \* value returned by check_protocol_extensions
    perfRet,        \* value returned by check_perf_docs
    needed,         \* check_protocol_extensions' local `needed`
    errors,         \* main's local list
    stdout,
    stderr,
    rc              \* <<code>> once main has returned code, <<>> before

env == <<cargoOk, packages, archDoc, protoDoc, rustSrc, vscodeSrc,
         workflow, thresholdFiles, benchFiles, perfDocs>>
vars == <<cargoOk, packages, archDoc, protoDoc, rustSrc, vscodeSrc,
          workflow, thresholdFiles, benchFiles, perfDocs,
          pc, archRet, protoRet, perfRet, needed, errors, stdout, stderr, rc>>

----------------------------------------------------------------------------
(* Bounds of the model *)

MaxName == 3          \* crate names are 1..MaxName
MaxSections == 3      \* headings in a generated architecture map
MaxMethod == 2        \* protocol methods outside the ignore list
MaxHeadings == 2      \* headings in a generated protocol document
MaxFieldSections == 2 \* sections in a document generated with arbitrary bodies
MaxMainSections == 1  \* sections per document in the whole-program runs

----------------------------------------------------------------------------
(* Python built-ins *)

Range(s) == {s[i] : i \in DOMAIN s}

Min(S) == CHOOSE x \in S : \A y \in S : x <= y

RECURSIVE SortedAsc(_)
SortedAsc(S) ==
    IF S = {} THEN <<>>
    ELSE <<Min(S)>> \o SortedAsc(S \ {Min(S)})

\* sorted(iterable of distinct names)
Sorted(S) == SortedAsc(S)

\* [x for x in s if x not in excluded]
Without(s, excluded) == SelectSeq(s, LAMBDA x : x \notin excluded)

\* sorted([c for c, n in Counter(names).items() if n > 1])
Duplicates(names) ==
    Sorted({names[i] : i \in {k \in DOMAIN names :
                                 \E j \in DOMAIN names : j # k /\ names[j] = names[k]}})

\* an error string
Err(kind, doc, items, field) ==
    [kind |-> kind, doc |-> doc, items |-> items, field |-> field]

\* a document that is not on disk
NoFile == [exists |-> FALSE, sections |-> <<>>]
File(sections) == [exists |-> TRUE, sections |-> sections]
Section(name, body) == [name |-> name, body |-> body]

----------------------------------------------------------------------------
(* Required fields of a documented section *)

ArchDocPath == "docs/architecture-map.md"
ArchRequiredFields ==
    << "- **Purpose:**", "- **Key entry points:**", "- **Maturity:**",
       "- **Known gaps vs intended docs:**" >>

\* FirstMissingField with a fault: the scan of the fields does not stop at the first
LastMissingField(body, fields) ==
    LET absent == {i \in DOMAIN fields : fields[i] \notin body}
    IN  IF absent = {} THEN 0 ELSE CHOOSE x \in absent : \A y \in absent : y <= x

\* index of the first field of `fields` that is not in `body`, 0 if none
FirstMissingField(body, fields) ==
    LET absent == {i \in DOMAIN fields : fields[i] \notin body}
    IN  IF absent = {} THEN 0 ELSE Min(absent)

\* for idx, m in enumerate(matches): for field in required_fields: ... break
RECURSIVE FieldErrors(_, _, _, _, _)
FieldErrors(kind, doc, sections, fields, idx) ==
    IF idx > Len(sections) THEN <<>>
    ELSE LET f == FirstMissingField(sections[idx].body, fields)
             here == IF f = 0 THEN <<>>
                     ELSE <<Err(kind, doc, <<sections[idx].name>>, fields[f])>>
         IN  here \o FieldErrors(kind, doc, sections, fields, idx + 1)

----------------------------------------------------------------------------
(* check_architecture_map *)

ArchDocCratesList(doc) == [i \in DOMAIN doc.sections |-> doc.sections[i].name]

ArchMissing(crates, docList) == Without(crates, Range(docList))

\* ArchExtra with a fault: the documented names are not sorted (nor deduplicated)
ArchExtraInDocOrder(crates, docList) == Without(docList, Range(crates))

ArchExtra(crates, docList) == Without(Sorted(Range(docList)), Range(crates))

\* ArchOrderErrors with a fault: no `break` after the first divergence
ArchOrderErrorsNoBreak(crates, docList) ==
    LET n == IF Len(docList) < Len(crates) THEN Len(docList) ELSE Len(crates)
        diff == SelectSeq([i \in 1..n |-> i], LAMBDA i : docList[i] # crates[i])
    IN  IF /\ Duplicates(docList) = <<>>
           /\ ArchMissing(crates, docList) = <<>>
           /\ Without(Sorted(Range(docList)), Range(crates)) = <<>>
           /\ docList # crates
        THEN [k \in DOMAIN diff |->
                 Err("not in alphabetical order", ArchDocPath,
                     <<diff[k], docList[diff[k]], crates[diff[k]]>>, "")]
        ELSE <<>>

\* the ordering check of lines 81-88
ArchOrderErrors(crates, docList) ==
    LET n == IF Len(docList) < Len(crates) THEN Len(docList) ELSE Len(crates)
        diff == {i \in 1..n : docList[i] # crates[i]}
    IN  IF /\ Duplicates(docList) = <<>>
           /\ ArchMissing(crates, docList) = <<>>
           /\ ArchExtra(crates, docList) = <<>>
           /\ docList # crates
           /\ diff # {}
        THEN <<Err("not in alphabetical order", ArchDocPath,
                   <<Min(diff), docList[Min(diff)], crates[Min(diff)]>>, "")>>
        ELSE <<>>

\* the list built by lines 40-89, given the sorted crate list and the document
ArchErrors(crates, doc) ==
    LET docList == ArchDocCratesList(doc)
        duplicates == Duplicates(docList)
        missing == ArchMissing(crates, docList)
        extra == ArchExtra(crates, docList)
    IN  (IF duplicates # <<>>
         THEN <<Err("duplicate crate headings", ArchDocPath, duplicates, "")>>
         ELSE <<>>)
        \o (IF missing # <<>>
            THEN <<Err("missing crate headings", ArchDocPath, missing, "")>>
            ELSE <<>>)
        \o (IF extra # <<>>
            THEN <<Err("crates that no longer exist", ArchDocPath, extra, "")>>
            ELSE <<>>)
        \o FieldErrors("crate section missing required field", ArchDocPath,
                       doc.sections, ArchRequiredFields, 1)
        \o ArchOrderErrors(crates, docList)

CargoFailure == <<Err("failed to enumerate workspace crates via cargo metadata", "", <<>>, "")>>

\* main line 318: errors.extend(check_architecture_map()).  A missing document
\* makes read_text raise FileNotFoundError, which nothing catches.
CheckArchitectureMap ==
    /\ pc = "arch"
    /\ IF ~cargoOk
       THEN /\ archRet' = CargoFailure
            /\ errors' = errors \o archRet'
            /\ pc' = "proto"
       ELSE IF ~archDoc.exists
       THEN /\ pc' = "crashed"
            /\ UNCHANGED <<archRet, errors>>
       ELSE /\ archRet' = ArchErrors(Sorted(packages), archDoc)
            /\ errors' = errors \o archRet'
            /\ pc' = "proto"
    /\ UNCHANGED <<env, protoRet, perfRet, needed, stdout, stderr, rc>>

----------------------------------------------------------------------------
(* Protocol methods *)

NovaBugreport == 1          \* "nova/bugreport"
NovaRefactorPreview == 2    \* "nova/refactor/preview"

\* extract_vscode_methods' `ignore`
Ignore == {NovaBugreport, NovaRefactorPreview}

\* name.startswith("nova/"): the headings that are not methods are the numbers below 1
StartsWithNova(name) == name >= 1

\* the kinds of path under editors/vscode/src: an ordinary source file, a file
\* below a __tests__ directory, a *.test.ts file and a *.node-test.ts file
FileKinds == {"src", "__tests__", ".test.ts", ".node-test.ts"}

IsTestFile(kind) == kind \in {"__tests__", ".test.ts", ".node-test.ts"}

\* the lines of the server sources that hold a "nova/..." string: a whole-line
\* `pub const NAME: &str = "nova/...";` declaration, or anything else (a serde
\* rename, a string inside an expression)
RustLineKinds == {"pub const", "other"}

\* extract_rust_methods, united over the files of the crate
ExtractRustMethods(src) == src["pub const"]

\* ExtractVscodeMethods with a fault: the ignore list is not applied
ExtractVscodeMethodsNoIgnore(src) ==
    UNION {src[k] : k \in {f \in DOMAIN src : ~IsTestFile(f)}}

ExtractVscodeMethods(src) ==
    UNION {src[k] \ Ignore : k \in {f \in DOMAIN src : ~IsTestFile(f)}}

\* ProtoNeeded with a fault: the client-side literals are left out of the union
ProtoNeededServerOnly(rust, vscode) == ExtractRustMethods(rust)

ProtoNeeded(rust, vscode) == ExtractRustMethods(rust) \cup ExtractVscodeMethods(vscode)

----------------------------------------------------------------------------
(* check_protocol_extensions *)

ProtoDocPath == "docs/protocol-extensions.md"
ProtoRequiredFields == << "- **Kind:**", "- **Stability:**" >>

\* positions of the headings kept by line 135
ProtoMatches(doc) ==
    SelectSeq([i \in DOMAIN doc.sections |-> i],
              LAMBDA i : StartsWithNova(doc.sections[i].name))

\* doc[m.end() : next kept heading's start], per kept heading: the text of the
\* headings dropped in between stays in the section
ProtoSections(doc) ==
    LET at == ProtoMatches(doc)
        last(k) == IF k < Len(at) THEN at[k + 1] - 1 ELSE Len(doc.sections)
    IN  [k \in DOMAIN at |->
            Section(doc.sections[at[k]].name,
                    UNION {doc.sections[j].body : j \in at[k]..last(k)})]

ProtoDocMethodsList(doc) ==
    LET secs == ProtoSections(doc) IN [k \in DOMAIN secs |-> secs[k].name]

ProtoMissing(need, docList) == Sorted(need \ Range(docList))

ProtoExtra(need, docList) == Sorted(Range(docList) \ need)

ProtoErrors(need, doc) ==
    LET docList == ProtoDocMethodsList(doc)
        duplicates == Duplicates(docList)
        missing == ProtoMissing(need, docList)
        extra == ProtoExtra(need, docList)
    IN  (IF duplicates # <<>>
         THEN <<Err("duplicate method headings", ProtoDocPath, duplicates, "")>>
         ELSE <<>>)
        \o (IF missing # <<>>
            THEN <<Err("missing method headings", ProtoDocPath, missing, "")>>
            ELSE <<>>)
        \o (IF extra # <<>>
            THEN <<Err("method headings not referenced", ProtoDocPath, extra, "")>>
            ELSE <<>>)
        \o FieldErrors("method section missing required field", ProtoDocPath,
                       ProtoSections(doc), ProtoRequiredFields, 1)

\* main line 319.  read_text is the function's first step: a missing document
\* raises before anything is collected.
CheckProtocolExtensions ==
    /\ pc = "proto"
    /\ IF ~protoDoc.exists
       THEN /\ pc' = "crashed"
            /\ UNCHANGED <<protoRet, needed, errors>>
       ELSE /\ needed' = ProtoNeeded(rustSrc, vscodeSrc)
            /\ protoRet' = ProtoErrors(needed', protoDoc)
            /\ errors' = errors \o protoRet'
            /\ pc' = "perf"
    /\ UNCHANGED <<env, archRet, perfRet, stdout, stderr, rc>>

----------------------------------------------------------------------------
(* check_perf_docs *)

WorkflowPath == ".github/workflows/perf.yml"
StrategyDoc == "docs/14-testing-strategy.md"
InfraDoc == "docs/14-testing-infrastructure.md"
PerfReadme == "perf/README.md"
DocsRequirePaths == <<StrategyDoc, InfraDoc>>
ThresholdPaths == <<"perf/thresholds.toml", "perf/runtime-thresholds.toml">>

\* f"crates/{crate}/benches/{bench}.rs": one path per suite, named by the suite
BenchPath(suite) == suite

RECURSIVE Flatten(_)
Flatten(ss) == IF ss = <<>> THEN <<>> ELSE Head(ss) \o Flatten(Tail(ss))

OneIf(cond, e) == IF cond THEN <<e>> ELSE <<>>

\* for rel in threshold_paths: if not (REPO_ROOT / rel).exists(): ...
ThresholdFileErrors(existing) ==
    Flatten([i \in DOMAIN ThresholdPaths |->
                OneIf(ThresholdPaths[i] \notin existing,
                      Err("expected to exist", ThresholdPaths[i], <<>>, ""))])

\* for crate, bench in suites: if not bench_file.exists(): ...
BenchFileErrors(suites, existing) ==
    Flatten([i \in DOMAIN suites |->
                OneIf(BenchPath(suites[i]) \notin existing,
                      Err("bench file does not exist", WorkflowPath, <<suites[i]>>, ""))])

\* for rel in threshold_paths: if rel not in doc: ...
MentionErrors(path, text) ==
    Flatten([i \in DOMAIN ThresholdPaths |->
                OneIf(ThresholdPaths[i] \notin text.mentions,
                      Err("does not mention", path, <<>>, ThresholdPaths[i]))])

\* NarrativeDocErrors with a fault: no `continue` after the missing-document error,
\* the absent document is then compared as an empty text
NarrativeDocErrorsNoContinue(path, text, suites) ==
    LET expected == {BenchPath(s) : s \in Range(suites)}
        missing == Sorted(expected \ text.paths)
        extra == Sorted(text.paths \ expected)
        missingCmds == Sorted(Range(suites) \ text.cmds)
        extraCmds == Sorted(text.cmds \ Range(suites))
    IN  OneIf(~text.exists, Err("expected to exist", path, <<>>, ""))
        \o OneIf(missing # <<>>, Err("missing bench paths", path, missing, ""))
        \o OneIf(extra # <<>>, Err("bench paths not gated", path, extra, ""))
        \o OneIf(missingCmds # <<>>, Err("missing bench commands", path, missingCmds, ""))
        \o OneIf(extraCmds # <<>>, Err("bench commands not gated", path, extraCmds, ""))
        \o MentionErrors(path, text)

\* one pass of the loop of lines 250-286
NarrativeDocErrors(path, text, suites) ==
    IF ~text.exists
    THEN <<Err("expected to exist", path, <<>>, "")>>
    ELSE LET expected == {BenchPath(s) : s \in Range(suites)}
             missing == Sorted(expected \ text.paths)
             extra == Sorted(text.paths \ expected)
             missingCmds == Sorted(Range(suites) \ text.cmds)
             extraCmds == Sorted(text.cmds \ Range(suites))
         IN  OneIf(missing # <<>>, Err("missing bench paths", path, missing, ""))
             \o OneIf(extra # <<>>, Err("bench paths not gated", path, extra, ""))
             \o OneIf(missingCmds # <<>>, Err("missing bench commands", path, missingCmds, ""))
             \o OneIf(extraCmds # <<>>, Err("bench commands not gated", path, extraCmds, ""))
             \o MentionErrors(path, text)

\* lines 288-311
ReadmeErrors(text, suites) ==
    IF ~text.exists
    THEN <<Err("expected to exist", PerfReadme, <<>>, "")>>
    ELSE LET missingSuites == Sorted(Range(suites) \ text.cmds)
             extraSuites == Sorted(text.cmds \ Range(suites))
         IN  OneIf(missingSuites # <<>>,
                   Err("missing bench commands", PerfReadme, missingSuites, ""))
             \o OneIf(extraSuites # <<>>,
                      Err("bench commands not gated", PerfReadme, extraSuites, ""))
             \o MentionErrors(PerfReadme, text)

NoSuitesError == Err("expected cargo bench invocations", WorkflowPath, <<>>, "")

\* PerfErrors with a fault: the no-suites error is appended instead of returned
PerfErrorsNoEarlyReturn(wf, thresholds, benches, docs) ==
    IF ~wf.exists THEN <<>>
    ELSE LET suites == Sorted(wf.suites)
         IN  OneIf(suites = <<>>, NoSuitesError)
             \o ThresholdFileErrors(thresholds)
             \o BenchFileErrors(suites, benches)
             \o Flatten([i \in DOMAIN DocsRequirePaths |->
                            NarrativeDocErrors(DocsRequirePaths[i],
                                               docs[DocsRequirePaths[i]], suites)])
             \o ReadmeErrors(docs[PerfReadme], suites)

PerfErrors(wf, thresholds, benches, docs) ==
    IF ~wf.exists THEN <<>>
    ELSE LET suites == Sorted(wf.suites)
         IN  IF suites = <<>> THEN <<NoSuitesError>>
             ELSE ThresholdFileErrors(thresholds)
                  \o BenchFileErrors(suites, benches)
                  \o Flatten([i \in DOMAIN DocsRequirePaths |->
                                 NarrativeDocErrors(DocsRequirePaths[i],
                                                    docs[DocsRequirePaths[i]], suites)])
                  \o ReadmeErrors(docs[PerfReadme], suites)

\* main line 320
CheckPerfDocs ==
    /\ pc = "perf"
    /\ perfRet' = PerfErrors(workflow, thresholdFiles, benchFiles, perfDocs)
    /\ errors' = errors \o perfRet'
    /\ pc' = "report"
    /\ UNCHANGED <<env, archRet, protoRet, needed, stdout, stderr, rc>>

----------------------------------------------------------------------------
(* main, lines 322-328 *)

ErrorLine(err) == [prefix |-> "error: ", err |-> err]
OkLine == "docs consistency check: ok"

Report ==
    /\ pc = "report"
    /\ IF errors # <<>>
       THEN /\ stderr' = stderr \o [i \in DOMAIN errors |-> ErrorLine(errors[i])]
            /\ rc' = <<1>>
            /\ UNCHANGED stdout
       ELSE /\ stdout' = stdout \o <<OkLine>>
            /\ rc' = <<0>>
            /\ UNCHANGED stderr
    /\ pc' = "done"
    /\ UNCHANGED <<env, archRet, protoRet, perfRet, needed, errors>>

Next ==
    \/ CheckArchitectureMap
    \/ CheckProtocolExtensions
    \/ CheckPerfDocs
    \/ Report

----------------------------------------------------------------------------
(* Environments *)

SeqsUpTo(S, n) == UNION {[1..k -> S] : k \in 0..n}

CrateNames == 1..MaxName
AllArchFields == Range(ArchRequiredFields)
AllProtoFields == Range(ProtoRequiredFields)
RegularMethods == {NovaRefactorPreview + k : k \in 1..MaxMethod}
Methods == Ignore \cup RegularMethods
OtherHeading == NovaBugreport - 1      \* a level-3 heading that is no nova/ method
Suites == {1, 2}                       \* the (crate, bench) pairs, in tuple order
PerfDocNames == {StrategyDoc, InfraDoc, PerfReadme}

NoText == [exists |-> FALSE, paths |-> {}, cmds |-> {}, mentions |-> {}]
Text(paths, cmds, mentions) ==
    [exists |-> TRUE, paths |-> paths, cmds |-> cmds, mentions |-> mentions]
InSyncText(suites) ==
    Text({BenchPath(s) : s \in suites}, suites, Range(ThresholdPaths))
AllTexts ==
    {Text(p, c, m) : p \in SUBSET {BenchPath(s) : s \in Suites},
                     c \in SUBSET Suites, m \in SUBSET Range(ThresholdPaths)}

ProgramStart ==
    /\ pc = "arch"
    /\ archRet = <<>>
    /\ protoRet = <<>>
    /\ perfRet = <<>>
    /\ needed = {}
    /\ errors = <<>>
    /\ stdout = <<>>
    /\ stderr = <<>>
    /\ rc = <<>>

\* an empty workspace documented by an empty architecture map
QuietArch ==
    /\ cargoOk = TRUE
    /\ packages = {}
    /\ archDoc = File(<<>>)

QuietProto ==
    /\ protoDoc = File(<<>>)
    /\ rustSrc = [k \in RustLineKinds |-> {}]
    /\ vscodeSrc = [k \in FileKinds |-> {}]

QuietPerf ==
    /\ workflow = [exists |-> FALSE, suites |-> {}]
    /\ thresholdFiles = {}
    /\ benchFiles = {}
    /\ perfDocs = [d \in PerfDocNames |-> NoText]

\* main has reached line 319 (320) with nothing collected so far
AtLine(position) ==
    /\ pc = position
    /\ archRet = <<>>
    /\ protoRet = <<>>
    /\ perfRet = <<>>
    /\ needed = {}
    /\ errors = <<>>
    /\ stdout = <<>>
    /\ stderr = <<>>
    /\ rc = <<>>

(* The architecture checker on every inventory and every map of complete or
   bare sections. *)
ArchDocs ==
    {File(s) : s \in SeqsUpTo({Section(c, b) : c \in CrateNames,
                                               b \in {AllArchFields, {}}},
                              MaxSections)}

InitArch ==
    /\ cargoOk \in BOOLEAN
    /\ packages \in SUBSET CrateNames
    /\ archDoc \in ArchDocs \cup {NoFile}
    /\ QuietProto
    /\ QuietPerf
    /\ ProgramStart

SpecArch == InitArch /\ [][CheckArchitectureMap]_vars

(* The protocol checker on every server-side constant set (every name also
   occurring on lines that declare nothing), every client
   source tree with literals in ordinary files and at most one populated kind
   of test file, and every document of complete sections. *)
ProtoDocs ==
    {File(s) : s \in SeqsUpTo({Section(h, AllProtoFields) : h \in Methods \cup {OtherHeading}},
                              MaxHeadings)}

VscodeTrees ==
    {[k \in FileKinds |-> IF k = "src" THEN plain ELSE IF k = t THEN tests ELSE {}] :
        plain \in SUBSET Methods, t \in FileKinds \ {"src"}, tests \in {{}, Methods}}

InitProto ==
    /\ QuietArch
    /\ protoDoc \in ProtoDocs \cup {NoFile}
    /\ rustSrc \in {[k \in RustLineKinds |-> IF k = "pub const" THEN consts ELSE other] :
                      consts \in SUBSET Methods, other \in {Methods}}
    /\ vscodeSrc \in VscodeTrees
    /\ QuietPerf
    /\ AtLine("proto")

SpecProto == InitProto /\ [][CheckProtocolExtensions]_vars

(* Both checkers on documents whose section bodies hold any subset of the
   required fields: either an architecture map of several sections beside an
   empty protocol document, or a map of at most one section beside a protocol
   document of several sections. *)
ArchFieldDocs ==
    {File(s) : s \in SeqsUpTo({Section(c, b) : c \in {1, 2}, b \in SUBSET AllArchFields},
                              MaxFieldSections)}

ArchOneSectionDocs == {d \in ArchFieldDocs : Len(d.sections) <= 1}

ProtoFieldDocs ==
    {File(s) : s \in SeqsUpTo({Section(h, b) : h \in {OtherHeading, NovaRefactorPreview + 1},
                                               b \in SUBSET AllProtoFields},
                              MaxFieldSections + 1)}

InitFields ==
    /\ cargoOk = TRUE
    /\ packages = {1, 2}
    /\ rustSrc = [k \in RustLineKinds |-> IF k = "pub const" THEN RegularMethods ELSE {}]
    /\ vscodeSrc = [k \in FileKinds |-> {}]
    /\ \/ archDoc \in ArchFieldDocs /\ protoDoc = File(<<>>)
       \/ archDoc \in ArchOneSectionDocs /\ protoDoc \in ProtoFieldDocs
    /\ QuietPerf
    /\ ProgramStart

NextFields == CheckArchitectureMap \/ CheckProtocolExtensions

SpecFields == InitFields /\ [][NextFields]_vars

(* The perf checker on every workflow, every set of existing config and bench
   files, and every triple of documents in which one document is arbitrary
   and the other two are absent, empty or in sync with the workflow. *)
PerfDocTriples(suites) ==
    LET coarse == {NoText, Text({}, {}, {}), InSyncText(suites)}
    IN  {[d \in PerfDocNames |-> IF d = focus THEN t ELSE others[d]] :
            focus \in PerfDocNames, t \in AllTexts \cup {NoText},
            others \in [PerfDocNames -> coarse]}

InitPerf ==
    /\ QuietArch
    /\ QuietProto
    /\ workflow \in {[exists |-> FALSE, suites |-> {}]}
                    \cup {[exists |-> TRUE, suites |-> s] : s \in SUBSET Suites}
    /\ thresholdFiles \in SUBSET Range(ThresholdPaths)
    /\ benchFiles \in SUBSET {BenchPath(s) : s \in Suites}
    /\ perfDocs \in PerfDocTriples(workflow.suites)
    /\ AtLine("perf")

SpecPerf == InitPerf /\ [][CheckPerfDocs]_vars

(* Whole runs of main on small repositories: each document absent or present
   with a few sections, the perf side all there or all missing. *)
MainArchDocs ==
    {File(s) : s \in SeqsUpTo({Section(c, b) : c \in {1, 2}, b \in {AllArchFields, {}}},
                              MaxMainSections)}

MainProtoDocs ==
    {File(s) : s \in SeqsUpTo({Section(h, b) : h \in RegularMethods,
                                               b \in {AllProtoFields, {}}},
                              MaxMainSections)}

Init ==
    /\ cargoOk \in BOOLEAN
    /\ packages \in {{1}, {1, 2}}
    /\ archDoc \in MainArchDocs \cup {NoFile}
    /\ protoDoc \in MainProtoDocs \cup {NoFile}
    /\ rustSrc \in {[k \in RustLineKinds |-> IF k = "pub const" THEN consts ELSE {}] :
                      consts \in SUBSET RegularMethods}
    /\ vscodeSrc = [k \in FileKinds |-> {}]
    /\ workflow \in {[exists |-> FALSE, suites |-> {}], [exists |-> TRUE, suites |-> {}],
                     [exists |-> TRUE, suites |-> {1}]}
    /\ \/ thresholdFiles = Range(ThresholdPaths) /\ benchFiles = {BenchPath(1)}
       \/ thresholdFiles = {} /\ benchFiles = {}
    /\ \/ perfDocs = [d \in PerfDocNames |-> InSyncText(workflow.suites)]
       \/ perfDocs = [d \in PerfDocNames |-> NoText]
    /\ ProgramStart

Spec == Init /\ [][Next]_vars

----------------------------------------------------------------------------
(* Vocabulary of the properties *)

IsAscending(s) == \A i, j \in DOMAIN s : i < j => s[i] < s[j]

\* s names exactly the members of S, in ascending order
ListsAscending(s, S) == Range(s) = S /\ IsAscending(s)

OfKind(ret, kind) == SelectSeq(ret, LAMBDA e : e.kind = kind)

About(ret, doc) == SelectSeq(ret, LAMBDA e : e.doc = doc)

HasKind(ret, kind) == \E i \in DOMAIN ret : ret[i].kind = kind

\* at most one error of the kind, present iff S is non-empty, listing exactly S ascending
ReportsExactly(ret, kind, S) ==
    /\ Len(OfKind(ret, kind)) = (IF S # {} THEN 1 ELSE 0)
    /\ \A i \in DOMAIN ret : ret[i].kind = kind => ListsAscending(ret[i].items, S)

HeadingNames(doc) == {doc.sections[i].name : i \in DOMAIN doc.sections}

\* the k-th smallest member of a set of positions
Kth(S, k) == CHOOSE i \in S : Cardinality({j \in S : j <= i}) = k

\* the positions of the headings of `doc` that open a documented section
SectionHeads(doc, novaOnly) ==
    {i \in DOMAIN doc.sections : novaOnly => doc.sections[i].name >= NovaBugreport}

\* the markers between the heading at position i and the next section head
BodyOf(doc, novaOnly, i) ==
    UNION {doc.sections[j].body :
              j \in {n \in i..Len(doc.sections) :
                        \A h \in SectionHeads(doc, novaOnly) : ~(i < h /\ h <= n)}}

\* The required-field errors of `ret` are, section by section in document order,
\* one error for each section lacking a marker, naming the section and the first
\* marker it lacks.
OneFieldErrorPerSection(ret, kind, doc, novaOnly, fields) ==
    LET lacking == {i \in SectionHeads(doc, novaOnly) :
                       \E f \in DOMAIN fields : fields[f] \notin BodyOf(doc, novaOnly, i)}
        got == OfKind(ret, kind)
    IN  /\ Len(got) = Cardinality(lacking)
        /\ \A k \in DOMAIN got :
              LET i == Kth(lacking, k)
                  body == BodyOf(doc, novaOnly, i)
                  first == CHOOSE f \in DOMAIN fields :
                              /\ fields[f] \notin body
                              /\ \A g \in 1..(f - 1) : fields[g] \in body
              IN  /\ got[k].items = <<doc.sections[i].name>>
                  /\ got[k].field = fields[first]

\* check_architecture_map has run its checks and returned
ArchChecked == pc \in {"proto", "perf", "report", "done"} /\ cargoOk

ProtoChecked == pc \in {"perf", "report", "done"}

PerfChecked == pc \in {"report", "done"}

----------------------------------------------------------------------------
(* C1 *)

\* C1: for every inventory I and documented heading set D, check_architecture_map
\* reports a missing-headings error iff I \ D is non-empty and an extra-headings
\* error iff D \ I is non-empty, each listing exactly that difference in
\* ascending order.
C1_ArchMissingAndExtra ==
    ArchChecked =>
        /\ ReportsExactly(archRet, "missing crate headings",
                          packages \ HeadingNames(archDoc))
        /\ ReportsExactly(archRet, "crates that no longer exist",
                          HeadingNames(archDoc) \ packages)

C1_Witness ==
    /\ ArchChecked
    /\ Cardinality(packages \ HeadingNames(archDoc)) >= 2
    /\ HeadingNames(archDoc) \ packages # {}
    /\ HasKind(archRet, "missing crate headings")
    /\ HasKind(archRet, "crates that no longer exist")

----------------------------------------------------------------------------
(* C5 *)

\* the inventory sequence: the names of the packages in ascending order
InventorySeq ==
    CHOOSE s \in [1..Cardinality(packages) -> packages] : ListsAscending(s, packages)

DocumentedSeq == [i \in DOMAIN archDoc.sections |-> archDoc.sections[i].name]

\* C5: an ordering error is reported iff no duplicate, missing or extra error was
\* produced and the documented sequence differs from the inventory sequence;
\* then there is exactly one, naming the smallest position where the sequences
\* differ and the documented and the inventory entry at that position.
C5_ArchOrdering ==
    ArchChecked =>
        LET ord == OfKind(archRet, "not in alphabetical order")
            clean == /\ ~HasKind(archRet, "duplicate crate headings")
                     /\ ~HasKind(archRet, "missing crate headings")
                     /\ ~HasKind(archRet, "crates that no longer exist")
            fires == clean /\ DocumentedSeq # InventorySeq
        IN  /\ Len(ord) = (IF fires THEN 1 ELSE 0)
            /\ fires =>
                  /\ Len(DocumentedSeq) = Len(InventorySeq)
                  /\ LET p == CHOOSE i \in DOMAIN InventorySeq :
                                 /\ DocumentedSeq[i] # InventorySeq[i]
                                 /\ \A j \in 1..(i - 1) : DocumentedSeq[j] = InventorySeq[j]
                     IN  ord[1].items = <<p, DocumentedSeq[p], InventorySeq[p]>>

C5_Witness ==
    /\ ArchChecked
    /\ packages = {1, 2, 3}
    /\ DocumentedSeq = <<1, 3, 2>>
    /\ \E i \in DOMAIN archRet :
          /\ archRet[i].kind = "not in alphabetical order"
          /\ archRet[i].items = <<2, 3, 2>>

----------------------------------------------------------------------------
(* C6 *)

\* C6: in both checkers every documented section (each occurrence of a duplicated
\* heading included) yields no required-field error when its body holds every
\* marker, and otherwise exactly one, naming the first marker in the fixed order
\* that the body lacks.
C6_OneFieldErrorPerSection ==
    /\ ArchChecked =>
          OneFieldErrorPerSection(archRet, "crate section missing required field",
                                  archDoc, FALSE, ArchRequiredFields)
    /\ ProtoChecked =>
          OneFieldErrorPerSection(protoRet, "method section missing required field",
                                  protoDoc, TRUE, ProtoRequiredFields)

\* a crate section lacking the second and the fourth of the four markers, and a
\* method heading documented twice with both sections lacking both markers
C6_Witness ==
    /\ ProtoChecked
    /\ Len(archDoc.sections) = 1
    /\ archDoc.sections[1].body = {ArchRequiredFields[1], ArchRequiredFields[3]}
    /\ OfKind(archRet, "crate section missing required field")
          = <<Err("crate section missing required field", ArchDocPath,
                  <<archDoc.sections[1].name>>, ArchRequiredFields[2])>>
    /\ Len(protoDoc.sections) = 2
    /\ protoDoc.sections[1] = protoDoc.sections[2]
    /\ protoDoc.sections[1].name >= NovaBugreport
    /\ protoDoc.sections[1].body = {}
    /\ Len(OfKind(protoRet, "method section missing required field")) = 2

----------------------------------------------------------------------------
(* C3 *)

\* the literals of the client sources outside test files
ClientLiterals == vscodeSrc["src"]

\* the identifiers declared as server-side constants
ServerDeclared == rustSrc["pub const"]

\* C3 as claimed: an identifier of the ignore list is never in the needed set,
\* whatever the server declares and the client mentions.
C3_IgnoredNeverNeeded ==
    ProtoChecked => needed \cap Ignore = {}

\* C3, amended: an identifier of the ignore list is in the needed set exactly
\* when it is declared as a server-side constant; client-side literals never
\* put it there.
C3_IgnoredNeededOnlyIfDeclared ==
    ProtoChecked => needed \cap Ignore = ServerDeclared \cap Ignore

C3_Witness ==
    /\ ProtoChecked
    /\ NovaBugreport \in ClientLiterals
    /\ NovaBugreport \notin ServerDeclared
    /\ NovaBugreport \notin needed
    /\ NovaRefactorPreview \in ClientLiterals
    /\ NovaRefactorPreview \in ServerDeclared
    /\ NovaRefactorPreview \in needed

----------------------------------------------------------------------------
(* C4 *)

\* the client-referenced set after test-file and ignore-list exclusion
ClientReferenced == ClientLiterals \ Ignore

DocumentedMethods == {h \in HeadingNames(protoDoc) : h >= NovaBugreport}

\* C4: check_protocol_extensions lists as missing exactly (S \cup C) \ D and as
\* extra exactly D \ (S \cup C), each in ascending order; its errors are the
\* duplicate, missing, extra and required-field errors only, so none tells a
\* method of S from a method of C.
C4_ProtoMissingAndExtra ==
    ProtoChecked =>
        /\ ReportsExactly(protoRet, "missing method headings",
                          (ServerDeclared \cup ClientReferenced) \ DocumentedMethods)
        /\ ReportsExactly(protoRet, "method headings not referenced",
                          DocumentedMethods \ (ServerDeclared \cup ClientReferenced))
        /\ \A i \in DOMAIN protoRet :
              protoRet[i].kind \in {"duplicate method headings", "missing method headings",
                                    "method headings not referenced",
                                    "method section missing required field"}

\* one undocumented method declared only by the server and a larger one
\* referenced only by the client, listed together; a stale documented method
C4_Witness ==
    /\ ProtoChecked
    /\ \E m \in ServerDeclared \ ClientLiterals, n \in ClientReferenced \ ServerDeclared :
          /\ m < n
          /\ \E i \in DOMAIN protoRet :
                /\ protoRet[i].kind = "missing method headings"
                /\ protoRet[i].items = <<m, n>>
    /\ HasKind(protoRet, "method headings not referenced")
    /\ \E k \in FileKinds \ {"src"} : vscodeSrc[k] # {}
    /\ rustSrc["other"] # {}

----------------------------------------------------------------------------
(* C8 *)

\* C8: check_perf_docs returns no error when the workflow is absent, and exactly
\* the expected-invocation-shape error when the workflow yields no suite,
\* whatever the config files, bench files and documents are.
C8_WorkflowGate ==
    PerfChecked =>
        /\ ~workflow.exists => perfRet = <<>>
        /\ (workflow.exists /\ workflow.suites = {}) =>
              /\ Len(perfRet) = 1
              /\ perfRet[1].kind = "expected cargo bench invocations"

C8_Witness ==
    /\ PerfChecked
    /\ workflow.exists
    /\ workflow.suites = {}
    /\ thresholdFiles = {}
    /\ ~perfDocs[StrategyDoc].exists
    /\ perfDocs[PerfReadme].exists
    /\ perfDocs[PerfReadme].mentions = {}
    /\ Len(perfRet) = 1

----------------------------------------------------------------------------
(* C10 *)

HasError(ret, kind, doc, items, field) ==
    \E i \in DOMAIN ret : ret[i] = Err(kind, doc, items, field)

\* the sub-checks of a document that is there say what its text lacks or adds
SubChecksPerformed(d) ==
    LET about == About(perfRet, d)
        text == perfDocs[d]
        expected == {BenchPath(s) : s \in workflow.suites}
    IN  /\ ~HasKind(about, "expected to exist")
        /\ d # PerfReadme =>
              /\ ReportsExactly(about, "missing bench paths", expected \ text.paths)
              /\ ReportsExactly(about, "bench paths not gated", text.paths \ expected)
        /\ ReportsExactly(about, "missing bench commands", workflow.suites \ text.cmds)
        /\ ReportsExactly(about, "bench commands not gated", text.cmds \ workflow.suites)
        /\ \A rel \in Range(ThresholdPaths) :
              HasError(about, "does not mention", d, <<>>, rel) <=> rel \notin text.mentions

\* C10: with at least one suite, an absent document yields exactly one
\* expected-to-exist error and no other error about it, while the sub-checks of
\* the documents that are there and the existence checks of the config files and
\* of the bench files are all performed.
C10_AbsentDocumentShortCircuit ==
    (PerfChecked /\ workflow.exists /\ workflow.suites # {}) =>
        /\ \A d \in PerfDocNames :
              IF perfDocs[d].exists
              THEN SubChecksPerformed(d)
              ELSE About(perfRet, d) = <<Err("expected to exist", d, <<>>, "")>>
        /\ \A rel \in Range(ThresholdPaths) :
              HasError(perfRet, "expected to exist", rel, <<>>, "")
                 <=> rel \notin thresholdFiles
        /\ \A s \in workflow.suites :
              HasError(perfRet, "bench file does not exist", WorkflowPath, <<s>>, "")
                 <=> BenchPath(s) \notin benchFiles

C10_Witness ==
    /\ PerfChecked
    /\ workflow.exists
    /\ workflow.suites = {1}
    /\ thresholdFiles = {}
    /\ benchFiles = {}
    /\ ~perfDocs[StrategyDoc].exists
    /\ perfDocs[InfraDoc].exists
    /\ perfDocs[InfraDoc].paths = {BenchPath(2)}
    /\ perfDocs[InfraDoc].mentions = {}
    /\ perfDocs[PerfReadme].exists
    /\ perfDocs[PerfReadme].cmds = {}
    /\ Len(About(perfRet, StrategyDoc)) = 1
    /\ Len(About(perfRet, InfraDoc)) >= 4
    /\ Len(About(perfRet, PerfReadme)) = 3

----------------------------------------------------------------------------
(* C2, C7, C9: whole runs of main *)

Terminated == pc \in {"done", "crashed"}

Collected == archRet \o protoRet \o perfRet

\* C2: when a required document is absent the run does not crash: main returns
\* an exit code, the absence is an entry of the report, and the later checkers
\* have run.
C2_MissingDocumentIsAFinding ==
    Terminated =>
        /\ (~archDoc.exists \/ ~protoDoc.exists) =>
              /\ pc = "done"
              /\ rc # <<>>
        /\ (cargoOk /\ ~archDoc.exists) =>
              \E i \in DOMAIN errors : errors[i].doc = ArchDocPath
        /\ ~protoDoc.exists =>
              \E i \in DOMAIN errors : errors[i].doc = ProtoDocPath
        /\ (workflow.exists /\ workflow.suites # {}) =>
              \A d \in PerfDocNames :
                 ~perfDocs[d].exists => \E i \in DOMAIN errors : errors[i].doc = d

\* C7: when the inventory cannot be enumerated, check_architecture_map
\* contributes exactly the one wrapped failure, nothing is raised past main, and
\* the two other checkers run afterwards, their findings following that entry.
C7_EnumerationFailureIsolated ==
    ~cargoOk =>
        /\ pc # "arch" =>
              /\ Len(archRet) = 1
              /\ archRet[1].kind = "failed to enumerate workspace crates via cargo metadata"
        /\ Terminated =>
              /\ pc = "done"
              /\ errors = archRet \o protoRet \o perfRet
              /\ rc = <<1>>

\* C9: main returns 0 and prints the confirmation line exactly when all three
\* checkers return empty reports; otherwise it returns 1, prints no confirmation
\* and prints one error line per collected error, architecture errors first,
\* then protocol errors, then perf errors, in detection order, none dropped.
C9_ExitContract ==
    Terminated =>
        IF pc = "done" /\ archRet = <<>> /\ protoRet = <<>> /\ perfRet = <<>>
        THEN rc = <<0>> /\ stdout = <<OkLine>> /\ stderr = <<>>
        ELSE /\ rc = <<1>>
             /\ stdout = <<>>
             /\ stderr = [i \in DOMAIN Collected |-> ErrorLine(Collected[i])]

\* What holds of main on the runs in which every checker returns: the contract
\* of C9, and the isolation of C7.
ExitContractWhenMainReturns ==
    pc = "done" =>
        IF archRet = <<>> /\ protoRet = <<>> /\ perfRet = <<>>
        THEN rc = <<0>> /\ stdout = <<OkLine>> /\ stderr = <<>>
        ELSE /\ rc = <<1>>
             /\ stdout = <<>>
             /\ stderr = [i \in DOMAIN Collected |-> ErrorLine(Collected[i])]

EnumerationFailureWhenMainReturns ==
    ~cargoOk =>
        /\ pc # "arch" => archRet = CargoFailure
        /\ pc # "crashed" \/ ~protoDoc.exists
        /\ pc = "done" => errors = CargoFailure \o protoRet \o perfRet /\ rc = <<1>>

====
